---- MODULE Spec2Model ----
(***************************************************************************)
(* A model of ydkmaker2.py: the deck-list parser (parse_deck_list), the    *)
(* card lookup (get_card_id), the deck-file writer (write_ydk_file) and    *)
(* the file-name normalisation of main.                                    *)
(*                                                                         *)
(* Text is modelled at the level of characters: a Python str is a sequence *)
(* of one-character strings, so that strip(), lower(), splitlines(),       *)
(* join(), endswith(), int(), str() and the regular expression are         *)
(* computed as Python computes them.                                       *)
(***************************************************************************)
EXTENDS Integers, Sequences, FiniteSets, TLC

VARIABLES
    deck_list,        \* parse_deck_list's argument: the deck-list text
    lines,            \* deck_list.splitlines(), the list the for loop walks
    pos,              \* number of lines of deck_list.splitlines() consumed by the for loop
    current_section,  \* "main" | "extra" | "side"
    main_deck, extra_deck, side_deck,   \* the three lists of identifiers
    pc,               \* where the script is
    call,             \* the local variables quantity and card_name of the pending lookup
    response,         \* the lookup service's answer to the request in flight
    requests,         \* history: the lookups issued so far, in order
    results,          \* history: what get_card_id returned for each of them
    file,             \* the text write_ydk_file wrote
    typed,            \* the line input() returned for the file name
    file_name         \* main's file_name

vars == <<deck_list, lines, pos, current_section, main_deck, extra_deck, side_deck, pc,
          call, response, requests, results, file, typed, file_name>>

----------------------------------------------------------------------------
(* Bounds of the model *)

MaxLines == 3       \* lines of a deck list (Spec)
MaxLineLen == 4     \* characters of the single line of a deck list (SpecLine)
MaxDeckLen == 2     \* identifiers per deck handed to the writer (SpecWrite)
MaxNameLen == 5     \* characters of the file name typed by the user (SpecName)

----------------------------------------------------------------------------
(* Python values and str methods *)

\* Python's None. A str is a sequence of one-character strings, so this tuple is no str.
None == <<"<NoneType>">>

\* bool(v) for v a str or None: None and "" are false.
Truthy(v) == v /= None /\ v /= <<>>

\* a or b
Or(a, b) == IF Truthy(a) THEN a ELSE b

NL == "\n"
Whitespace == {" ", "\t", NL}
Digits == {"0", "1", "2", "3", "4", "5", "6", "7", "8", "9"}

DigitVal == ("0" :> 0) @@ ("1" :> 1) @@ ("2" :> 2) @@ ("3" :> 3) @@ ("4" :> 4) @@
            ("5" :> 5) @@ ("6" :> 6) @@ ("7" :> 7) @@ ("8" :> 8) @@ ("9" :> 9)

DigitChar == <<"0", "1", "2", "3", "4", "5", "6", "7", "8", "9">>

ToLower == ("A" :> "a") @@ ("B" :> "b") @@ ("D" :> "d") @@ ("E" :> "e") @@
           ("I" :> "i") @@ ("K" :> "k") @@ ("M" :> "m") @@ ("N" :> "n") @@
           ("R" :> "r") @@ ("S" :> "s") @@ ("T" :> "t") @@ ("X" :> "x") @@
           ("Y" :> "y")

SetMin(S) == CHOOSE x \in S : \A y \in S : x <= y
SetMax(S) == CHOOSE x \in S : \A y \in S : x >= y

\* s.strip()
Strip(s) ==
    LET keep == {k \in 1..Len(s) : s[k] \notin Whitespace}
    IN  IF keep = {} THEN <<>> ELSE SubSeq(s, SetMin(keep), SetMax(keep))

\* s.lower()
Lower(s) == [k \in 1..Len(s) |-> IF s[k] \in DOMAIN ToLower THEN ToLower[s[k]] ELSE s[k]]

\* s.endswith(suffix)
EndsWith(s, suffix) ==
    /\ Len(s) >= Len(suffix)
    /\ SubSeq(s, Len(s) - Len(suffix) + 1, Len(s)) = suffix

\* text.splitlines(), for "\n" the only line boundary that occurs
RECURSIVE SplitLines(_)
SplitLines(text) ==
    IF text = <<>> THEN <<>>
    ELSE LET nls == {k \in 1..Len(text) : text[k] = NL}
         IN  IF nls = {} THEN <<text>>
             ELSE LET k == SetMin(nls)
                  IN  <<SubSeq(text, 1, k - 1)>> \o SplitLines(SubSeq(text, k + 1, Len(text)))

\* sep.join(parts)
RECURSIVE Join(_, _)
Join(sep, parts) ==
    IF parts = <<>> THEN <<>>
    ELSE IF Len(parts) = 1 THEN parts[1]
    ELSE parts[1] \o sep \o Join(sep, Tail(parts))

\* int(s) for a str of decimal digits (Python integers do not overflow)
RECURSIVE int(_)
int(s) ==
    IF s = <<>> THEN 0
    ELSE 10 * int(SubSeq(s, 1, Len(s) - 1)) + DigitVal[s[Len(s)]]

\* str(n) for an integer n >= 0
RECURSIVE IntToStr(_)
IntToStr(n) ==
    IF n < 10 THEN <<DigitChar[n + 1]>>
    ELSE IntToStr(n \div 10) \o <<DigitChar[(n % 10) + 1]>>

\* A JSON value of the response's id field: null or a number.
JsonNull == <<"null">>
JsonInt(n) == <<"int", n>>

\* str(v) for a decoded JSON value: str(None) is "None"
Str(v) == IF v = JsonNull THEN <<"N", "o", "n", "e">> ELSE IntToStr(v[2])

----------------------------------------------------------------------------
(* The regular expression of parse_deck_list *)

\* The number of consecutive characters of s, from position from on, that are in chars
Run(s, from, chars) ==
    LET stop == {k \in from..Len(s) : s[k] \notin chars}
    IN  IF stop = {} THEN Len(s) - from + 1 ELSE SetMin(stop) - from

\* t comes before u, or is u, in the order a backtracking matcher tries greedy
\* quantifiers: the longest first, the leftmost quantifier varying last.
TriedFirst(t, u) ==
    \/ t = u
    \/ \E k \in 1..Len(t) : (\A j \in 1..(k - 1) : t[j] = u[j]) /\ t[k] > u[k]

\* (.+)$ matches s from position from on: at least one character, none a newline
RestMatches(s, from) == from <= Len(s) /\ \A k \in from..Len(s) : s[k] /= NL

\* The ways the first alternative, \s*(\d+)[xX]?\s* followed by (.+)$, matches
\* line: <<a, d, x, s>> are the lengths matched by \s*, \d+, [xX]? and \s*, each
\* any length its quantifier allows within the run of its characters.
FirstAlternative(line) ==
    {t \in UNION {UNION {UNION {{<<a, d, x, s>> :
                    s \in 0..Run(line, a + d + x + 1, Whitespace)} :
                    x \in 0..(IF Run(line, a + d + 1, {"x", "X"}) > 0 THEN 1 ELSE 0)} :
                    d \in 1..Run(line, a + 1, Digits)} :
                    a \in 0..Run(line, 1, Whitespace)} :
        RestMatches(line, t[1] + t[2] + t[3] + t[4] + 1)}

\* The ways the second alternative, \s*[xX](\d+)\s* followed by (.+)$, matches
\* line: <<a, d, s>> are the lengths matched by \s*, \d+ and \s*.
SecondAlternative(line) ==
    {t \in UNION {UNION {{<<a, d, s>> :
                    s \in 0..Run(line, a + 1 + d + 1, Whitespace)} :
                    d \in 1..Run(line, a + 2, Digits)} :
                    a \in {a \in 0..Run(line, 1, Whitespace) :
                            Run(line, a + 1, {"x", "X"}) > 0}} :
        RestMatches(line, t[1] + 1 + t[2] + t[3] + 1)}

NoMatch == [matched |-> FALSE, group1 |-> None, group2 |-> None, group3 |-> None]

\* A slip in the pattern: the quantity made optional, ^(?:...)?(.+)$, so that a
\* line without a quantity is a card line of quantity 1.
CardRegexMatchQuantityOptional(line) ==
    LET first == FirstAlternative(line)
        second == SecondAlternative(line)
    IN  IF first /= {}
        THEN LET t == CHOOSE t \in first : \A u \in first : TriedFirst(t, u)
             IN  [matched |-> TRUE,
                  group1 |-> SubSeq(line, t[1] + 1, t[1] + t[2]),
                  group2 |-> None,
                  group3 |-> SubSeq(line, t[1] + t[2] + t[3] + t[4] + 1, Len(line))]
        ELSE IF second /= {}
        THEN LET t == CHOOSE t \in second : \A u \in second : TriedFirst(t, u)
             IN  [matched |-> TRUE,
                  group1 |-> None,
                  group2 |-> SubSeq(line, t[1] + 2, t[1] + 1 + t[2]),
                  group3 |-> SubSeq(line, t[1] + t[2] + t[3] + 2, Len(line))]
        ELSE IF RestMatches(line, 1)
        THEN [matched |-> TRUE, group1 |-> <<"1">>, group2 |-> None, group3 |-> line]
        ELSE NoMatch

\* card_regex.match(line): the first match in the matcher's order, the first
\* alternative before the second.
card_regex_match(line) ==
    LET first == FirstAlternative(line)
        second == SecondAlternative(line)
    IN  IF first /= {}
        THEN LET t == CHOOSE t \in first : \A u \in first : TriedFirst(t, u)
             IN  [matched |-> TRUE,
                  group1 |-> SubSeq(line, t[1] + 1, t[1] + t[2]),
                  group2 |-> None,
                  group3 |-> SubSeq(line, t[1] + t[2] + t[3] + t[4] + 1, Len(line))]
        ELSE IF second /= {}
        THEN LET t == CHOOSE t \in second : \A u \in second : TriedFirst(t, u)
             IN  [matched |-> TRUE,
                  group1 |-> None,
                  group2 |-> SubSeq(line, t[1] + 2, t[1] + 1 + t[2]),
                  group3 |-> SubSeq(line, t[1] + t[2] + t[3] + 2, Len(line))]
        ELSE NoMatch

----------------------------------------------------------------------------
(* get_card_id *)

\* The identifiers the lookup service knows.
CardIds == {7, 42}

\* What requests.get and response.json() can give: the request raises; the
\* service answers with a status other than 200; it answers 200 with a body
\* that is not JSON, that has no "data", whose "data" is empty, whose first
\* result has no "id", or whose first result has an "id" (null or a number).
Bodies ==
    {<<"not_json">>, <<"no_data">>, <<"empty_data">>, <<"no_id">>, <<"id", JsonNull>>}
        \cup {<<"id", JsonInt(n)>> : n \in CardIds}

Responses ==
    {[raised |-> TRUE, status_code |-> 0, body |-> <<"not_json">>],
     [raised |-> FALSE, status_code |-> 400, body |-> <<"no_data">>]}
        \cup {[raised |-> FALSE, status_code |-> 200, body |-> b] : b \in Bodies}

NoResponse == [raised |-> FALSE, status_code |-> 0, body |-> <<>>]

\* get_card_id's result once requests.get has answered (or raised) with resp.
\* card_name and format_name only make up the URL; whatever they are, the
\* service may answer with any of Responses.
get_card_id(resp) ==
    IF resp.raised
    THEN None                                     \* except Exception
    ELSE IF resp.status_code = 200
         THEN IF resp.body[1] = "id"
              THEN Str(resp.body[2])              \* str(data['data'][0]['id'])
              ELSE None                           \* json() or an index raised: except Exception
         ELSE None

----------------------------------------------------------------------------
(* parse_deck_list *)

HashMain == <<"#", "m", "a", "i", "n">>
HashExtra == <<"#", "e", "x", "t", "r", "a">>
HashSide == <<"#", "s", "i", "d", "e">>

NoCall == [quantity |-> 0, card_name |-> <<>>]

\* A slip in the loop: range(quantity + 1)
AppendCopiesOffByOne(deck, card_id, quantity) ==
    deck \o [k \in 1..(quantity + 1) |-> card_id]

\* for _ in range(quantity): <deck>.append(card_id)
AppendCopies(deck, card_id, quantity) == deck \o [k \in 1..quantity |-> card_id]

\* A slip in the header test: the line compared without lower()
HeaderCaseSensitive(line) ==
    IF line = HashMain THEN "main"
    ELSE IF line = HashExtra THEN "extra"
    ELSE IF line = HashSide THEN "side"
    ELSE ""

\* The section a stripped line names, "" when it is no section header:
\* line.lower() == "#main" / "#extra" / "#side"
Header(line) ==
    IF Lower(line) = HashMain THEN "main"
    ELSE IF Lower(line) = HashExtra THEN "extra"
    ELSE IF Lower(line) = HashSide THEN "side"
    ELSE ""

\* One iteration of the for loop, up to the next iteration or to the request of
\* get_card_id.
ReadLine ==
    /\ pc = "loop"
    /\ pos < Len(lines)
    /\ LET line == Strip(lines[pos + 1])
           match == card_regex_match(line)
       IN  IF line = <<>>
           THEN /\ pos' = pos + 1
                /\ UNCHANGED <<current_section, pc, call, requests>>
           ELSE IF Header(line) /= ""
           THEN /\ current_section' = Header(line)
                /\ pos' = pos + 1
                /\ UNCHANGED <<pc, call, requests>>
           ELSE IF match.matched
           THEN /\ call' = [quantity |-> int(Or(match.group1, match.group2)),
                            card_name |-> Strip(match.group3)]
                /\ requests' = Append(requests, [line |-> pos + 1,
                                                 section |-> current_section,
                                                 quantity |-> call'.quantity,
                                                 card_name |-> call'.card_name])
                /\ pc' = "get_card_id"
                /\ pos' = pos + 1
                /\ UNCHANGED current_section
           ELSE /\ pos' = pos + 1
                /\ UNCHANGED <<current_section, pc, call, requests>>
    /\ UNCHANGED <<deck_list, lines, main_deck, extra_deck, side_deck, response, results,
                   file, typed, file_name>>

\* The lookup service answers the request in flight, or the request raises.
Respond ==
    /\ pc = "get_card_id"
    /\ \E resp \in Responses : response' = resp
    /\ pc' = "response"
    /\ UNCHANGED <<deck_list, lines, pos, current_section, main_deck, extra_deck, side_deck,
                   call, requests, results, file, typed, file_name>>

\* A slip in the lookup: a failed lookup is tried again instead of being given up.
GetCardIdReturnRetry ==
    /\ pc = "response"
    /\ LET card_id == get_card_id(response)
       IN  IF Truthy(card_id)
           THEN /\ results' = Append(results, card_id)
                /\ main_deck' = IF current_section = "main"
                                THEN AppendCopies(main_deck, card_id, call.quantity)
                                ELSE main_deck
                /\ extra_deck' = IF current_section = "extra"
                                 THEN AppendCopies(extra_deck, card_id, call.quantity)
                                 ELSE extra_deck
                /\ side_deck' = IF current_section = "side"
                                THEN AppendCopies(side_deck, card_id, call.quantity)
                                ELSE side_deck
                /\ pc' = "loop"
                /\ call' = NoCall
                /\ UNCHANGED requests
           ELSE /\ requests' = Append(requests, requests[Len(requests)])
                /\ pc' = "get_card_id"
                /\ UNCHANGED <<results, main_deck, extra_deck, side_deck, call>>
    /\ response' = NoResponse
    /\ UNCHANGED <<deck_list, lines, pos, current_section, file, typed, file_name>>

\* get_card_id returns and the iteration ends: the identifier, if any, is
\* appended quantity times to the deck of the current section.
GetCardIdReturn ==
    /\ pc = "response"
    /\ LET card_id == get_card_id(response)
       IN  /\ results' = Append(results, card_id)
           /\ IF Truthy(card_id)
              THEN /\ main_deck' = IF current_section = "main"
                                   THEN AppendCopies(main_deck, card_id, call.quantity)
                                   ELSE main_deck
                   /\ extra_deck' = IF current_section = "extra"
                                    THEN AppendCopies(extra_deck, card_id, call.quantity)
                                    ELSE extra_deck
                   /\ side_deck' = IF current_section = "side"
                                   THEN AppendCopies(side_deck, card_id, call.quantity)
                                   ELSE side_deck
              ELSE UNCHANGED <<main_deck, extra_deck, side_deck>>
    /\ pc' = "loop"
    /\ call' = NoCall
    /\ response' = NoResponse
    /\ UNCHANGED <<deck_list, lines, pos, current_section, requests, file, typed, file_name>>

\* The loop is over: return main_deck, extra_deck, side_deck
ParseReturn ==
    /\ pc = "loop"
    /\ pos = Len(lines)
    /\ pc' = "parsed"
    /\ UNCHANGED <<deck_list, lines, pos, current_section, main_deck, extra_deck, side_deck,
                   call, response, requests, results, file, typed, file_name>>

\* The lines a deck list of Spec is made of.
Catalogue ==
    {HashMain,
     <<"#", "E", "x", "t", "r", "a">>,
     <<" ", "#", "S", "I", "D", "E", " ">>,
     <<" ">>,
     <<"A">>,
     <<"2", " ", "A">>,
     <<"x", "1", " ", "A", " ">>,
     <<"0", " ", "B">>}

RECURSIVE SeqsUpTo(_, _)
SeqsUpTo(S, n) ==
    IF n = 0 THEN {<<>>}
    ELSE LET shorter == SeqsUpTo(S, n - 1)
         IN  shorter \cup {Append(s, x) : s \in shorter, x \in S}

\* The state at the call parse_deck_list(deck_list, format_name)
ParseStart ==
    /\ lines = SplitLines(deck_list)
    /\ pos = 0
    /\ current_section = "main"
    /\ main_deck = <<>>
    /\ extra_deck = <<>>
    /\ side_deck = <<>>
    /\ pc = "loop"
    /\ call = NoCall
    /\ response = NoResponse
    /\ requests = <<>>
    /\ results = <<>>
    /\ file = <<>>
    /\ typed = <<>>
    /\ file_name = <<>>

Init ==
    /\ deck_list \in {Join(<<NL>>, typed_lines) : typed_lines \in SeqsUpTo(Catalogue, MaxLines)}
    /\ ParseStart

Next == ReadLine \/ Respond \/ GetCardIdReturn \/ ParseReturn

Spec == Init /\ [][Next]_vars

\* A deck list of one line, over the characters a quantity and a name are made of.
LineAlphabet == {"0", "1", "2", "x", "X", " ", "A"}

InitLine ==
    /\ deck_list \in SeqsUpTo(LineAlphabet, MaxLineLen)
    /\ ParseStart

SpecLine == InitLine /\ [][Next]_vars

----------------------------------------------------------------------------
(* write_ydk_file *)

BangSide == <<"!", "s", "i", "d", "e">>

\* A slip in the writer: the #extra block written whether or not there are extra cards
WriteYdkFileAlwaysExtra(main, extra, side) ==
    HashMain \o <<NL>>
        \o Join(<<NL>>, main) \o <<NL>>
        \o <<NL>> \o HashExtra \o <<NL>> \o Join(<<NL>>, extra) \o <<NL>>
        \o (IF side /= <<>>
            THEN <<NL>> \o BangSide \o <<NL>> \o Join(<<NL>>, side) \o <<NL>>
            ELSE <<>>)

\* A slip in the writer: the side block headed #side, like the deck list's header
WriteYdkFileHashSide(main, extra, side) ==
    HashMain \o <<NL>>
        \o Join(<<NL>>, main) \o <<NL>>
        \o (IF extra /= <<>>
            THEN <<NL>> \o HashExtra \o <<NL>> \o Join(<<NL>>, extra) \o <<NL>>
            ELSE <<>>)
        \o (IF side /= <<>>
            THEN <<NL>> \o HashSide \o <<NL>> \o Join(<<NL>>, side) \o <<NL>>
            ELSE <<>>)

\* The text write_ydk_file writes to the file.
write_ydk_file(main, extra, side) ==
    HashMain \o <<NL>>
        \o Join(<<NL>>, main) \o <<NL>>
        \o (IF extra /= <<>>
            THEN <<NL>> \o HashExtra \o <<NL>> \o Join(<<NL>>, extra) \o <<NL>>
            ELSE <<>>)
        \o (IF side /= <<>>
            THEN <<NL>> \o BangSide \o <<NL>> \o Join(<<NL>>, side) \o <<NL>>
            ELSE <<>>)

WriteYdkFile ==
    /\ pc = "parsed"
    /\ file' = write_ydk_file(main_deck, extra_deck, side_deck)
    /\ pc' = "written"
    /\ UNCHANGED <<deck_list, lines, pos, current_section, main_deck, extra_deck, side_deck,
                   call, response, requests, results, typed, file_name>>

\* The identifiers get_card_id can return to parse_deck_list's `if card_id:`.
Identifiers == {get_card_id(resp) : resp \in Responses} \ {None, <<>>}

\* The state at the call write_ydk_file(output_path, main_deck, extra_deck, side_deck)
InitWrite ==
    /\ deck_list = <<>>
    /\ lines = <<>>
    /\ pos = 0
    /\ current_section = "main"
    /\ main_deck \in SeqsUpTo(Identifiers, MaxDeckLen)
    /\ extra_deck \in SeqsUpTo(Identifiers, MaxDeckLen)
    /\ side_deck \in SeqsUpTo(Identifiers, MaxDeckLen)
    /\ pc = "parsed"
    /\ call = NoCall
    /\ response = NoResponse
    /\ requests = <<>>
    /\ results = <<>>
    /\ file = <<>>
    /\ typed = <<>>
    /\ file_name = <<>>

NextWrite == WriteYdkFile

SpecWrite == InitWrite /\ [][NextWrite]_vars

----------------------------------------------------------------------------
(* main: the output file name *)

DotYdk == <<".", "y", "d", "k">>

\* A slip in the suffix test: endswith("ydk"), without the dot
FileNameNoDot(line) ==
    LET name == Strip(line)
    IN  IF ~EndsWith(name, <<"y", "d", "k">>) THEN name \o DotYdk ELSE name

\* file_name = input().strip(); if not file_name.endswith(".ydk"): file_name += ".ydk"
FileName(line) ==
    LET name == Strip(line)
    IN  IF ~EndsWith(name, DotYdk) THEN name \o DotYdk ELSE name

MainFileName ==
    /\ pc = "input"
    /\ file_name' = FileName(typed)
    /\ pc' = "named"
    /\ UNCHANGED <<deck_list, lines, pos, current_section, main_deck, extra_deck, side_deck,
                   call, response, requests, results, file, typed>>

NameAlphabet == {".", "y", "d", "k", " ", "a"}

InitName ==
    /\ typed \in SeqsUpTo(NameAlphabet, MaxNameLen)
    /\ deck_list = <<>>
    /\ lines = <<>>
    /\ pos = 0
    /\ current_section = "main"
    /\ main_deck = <<>>
    /\ extra_deck = <<>>
    /\ side_deck = <<>>
    /\ pc = "input"
    /\ call = NoCall
    /\ response = NoResponse
    /\ requests = <<>>
    /\ results = <<>>
    /\ file = <<>>
    /\ file_name = <<>>

NextName == MainFileName

SpecName == InitName /\ [][NextName]_vars

----------------------------------------------------------------------------
(* The properties *)

Deck(section) ==
    IF section = "main" THEN main_deck
    ELSE IF section = "extra" THEN extra_deck
    ELSE side_deck

Sections == {"main", "extra", "side"}

Copies(id, n) == [k \in 1..n |-> id]

Pending == pc \in {"get_card_id", "response"}

\* What the first k answered lookups contribute to a section, in the order of
\* the lookups, when lookup j goes to section SectionOfLookup[j].
RECURSIVE Contribution(_, _, _)
Contribution(section, k, SectionOfLookup) ==
    IF k = 0 THEN <<>>
    ELSE Contribution(section, k - 1, SectionOfLookup)
            \o (IF SectionOfLookup[k] = section /\ Truthy(results[k])
                THEN Copies(results[k], requests[k].quantity)
                ELSE <<>>)

\* C1: every card line whose name is resolved contributes exactly `quantity`
\* copies of its identifier, contiguously, to the deck of the section that is
\* current when the line is read and to no other deck, and the identifiers of
\* a deck are in the order of the lines that produced them.
QuantityCopiesInOrder ==
    LET current == [k \in 1..Len(requests) |-> requests[k].section]
    IN  \A section \in Sections :
            Deck(section) = Contribution(section, Len(results), current)

WitnessQuantityCopies ==
    /\ pc = "parsed"
    /\ Len(requests) = 2
    /\ requests[1].quantity = 2
    /\ Len(main_deck) = 3
    /\ main_deck[1] = main_deck[2]
    /\ main_deck[2] /= main_deck[3]

\* The claim's reading of a lookup that fails: the request raises, the status
\* is not 200, the result array is empty or missing, or the response is
\* malformed (no JSON, a first result without an id, an id that is no number).
LookupFails(resp) ==
    \/ resp.raised
    \/ resp.status_code /= 200
    \/ resp.body[1] \in {"not_json", "no_data", "empty_data", "no_id"}
    \/ resp.body = <<"id", JsonNull>>

\* C2 (as claimed): a lookup that fails in any way makes get_card_id return
\* None, adds no identifier to any deck, leaves the section alone and lets the
\* run go on with the next line.
FailedLookupIsolated ==
    [][(pc = "response" /\ LookupFails(response))
        => /\ results' = Append(results, None)
           /\ UNCHANGED <<main_deck, extra_deck, side_deck, current_section, pos>>
           /\ pc' = "loop"]_vars

\* C2, for the failures get_card_id does handle: every failure other than an
\* id that is no number is isolated to its line.
RaisingLookupIsolated ==
    [][(pc = "response" /\ LookupFails(response) /\ response.body[1] /= "id")
        => /\ results' = Append(results, None)
           /\ UNCHANGED <<main_deck, extra_deck, side_deck, current_section, pos>>
           /\ pc' = "loop"]_vars

\* The section named by the most recent header line before line n of the deck
\* list, "main" when there is none.
HeaderNames == {HashMain, HashExtra, HashSide}

IsHeaderLine(l) == Lower(Strip(l)) \in HeaderNames

SectionBefore(n) ==
    LET headers == {j \in 1..(n - 1) : IsHeaderLine(lines[j])}
        last == Lower(Strip(lines[SetMax(headers)]))
    IN  IF headers = {} THEN "main"
        ELSE IF last = HashMain THEN "main"
        ELSE IF last = HashExtra THEN "extra"
        ELSE "side"

\* C3: the identifiers of every resolved card line are in the deck named by
\* the most recent header line before it (compared after trimming, whatever
\* the case of its letters), in the main deck when no header precedes it.
SectionRouting ==
    LET named == [k \in 1..Len(requests) |-> SectionBefore(requests[k].line)]
    IN  /\ \A section \in Sections :
            Deck(section) = Contribution(section, Len(results), named)
        /\ ~Pending => current_section = SectionBefore(pos + 1)

WitnessSectionRouting ==
    /\ pc = "parsed"
    /\ Len(lines) = 3
    /\ IsHeaderLine(lines[1])
    /\ IsHeaderLine(lines[2])
    /\ lines[2] /= HashMain
    /\ SectionBefore(2) /= SectionBefore(3)
    /\ Deck(SectionBefore(3)) /= <<>>

\* The claim's lines that are no card lines: blank after trimming, a section
\* header, or a line that does not begin with a quantity.
IsBlankLine(l) == Strip(l) = <<>>

HasNoQuantity(l) ==
    LET t == Strip(l)
    IN  /\ t /= <<>>
        /\ t[1] \notin Digits
        /\ ~(t[1] \in {"x", "X"} /\ Len(t) >= 2 /\ t[2] \in Digits)

\* C6: reading a header line, a blank line or a line without a quantity adds
\* no identifier, issues no lookup and goes on to the next line; a blank line
\* or a line without a quantity also leaves the current section as it is.
NonCardLinesProduceNothing ==
    [][(/\ pc = "loop"
        /\ pos < Len(lines)
        /\ (IsBlankLine(lines[pos + 1]) \/ IsHeaderLine(lines[pos + 1])
                \/ HasNoQuantity(lines[pos + 1])))
        => /\ UNCHANGED <<main_deck, extra_deck, side_deck, requests, results>>
           /\ pc' = "loop"
           /\ pos' = pos + 1
           /\ (~IsHeaderLine(lines[pos + 1]) => UNCHANGED current_section)]_vars

WitnessNonCardLines ==
    /\ pc = "parsed"
    /\ current_section = "extra"
    /\ Len(lines) = 3
    /\ IsHeaderLine(lines[1])
    /\ IsBlankLine(lines[2])
    /\ HasNoQuantity(lines[3]) /\ ~IsHeaderLine(lines[3])
    /\ requests = <<>>
    /\ main_deck = <<>> /\ extra_deck = <<>> /\ side_deck = <<>>

\* The lines the loop treats as card lines: not blank, no header, matched by
\* the regular expression in one of its two alternatives.
IsCardLine(l) ==
    /\ ~IsBlankLine(l)
    /\ ~IsHeaderLine(l)
    /\ (FirstAlternative(Strip(l)) /= {} \/ SecondAlternative(Strip(l)) /= {})

\* C7: the lookups issued are exactly one for each card line read so far, in
\* the order of the lines and also for a name looked up before; a lookup is
\* answered before the next line is read.
OneLookupPerCardLine ==
    LET cards == {j \in 1..pos : IsCardLine(lines[j])}
    IN  /\ Len(requests) = Cardinality(cards)
        /\ \A k \in 1..Len(requests) :
            /\ requests[k].line \in cards
            /\ k > 1 => requests[k - 1].line < requests[k].line
        /\ Len(results) = Len(requests) - (IF Pending THEN 1 ELSE 0)
        /\ Pending => requests[Len(requests)].line = pos

WitnessOneLookupPerCardLine ==
    /\ pc = "parsed"
    /\ Len(requests) = 3
    /\ requests[1].card_name = requests[2].card_name
    /\ results[1] = None
    /\ Truthy(results[2])

\* The lines of the file as write_ydk_file lays them out.
Layout(main, extra, side) ==
    <<HashMain>>
        \o (IF main = <<>> THEN << <<>> >> ELSE main)
        \o (IF extra = <<>> THEN <<>> ELSE << <<>>, HashExtra >> \o extra)
        \o (IF side = <<>> THEN <<>> ELSE << <<>>, BangSide >> \o side)

HasLine(text, l) ==
    LET ls == SplitLines(text)
    IN  \E j \in 1..Len(ls) : ls[j] = l

\* C4: the file is the line #main and the main identifiers one per line (one
\* blank line for an empty main deck), then a blank line, #extra and the extra
\* identifiers if and only if there are any, then a blank line, !side and the
\* side identifiers if and only if there are any, and nothing else.
FileLayout ==
    pc = "written" =>
        /\ SplitLines(file) = Layout(main_deck, extra_deck, side_deck)
        /\ file[Len(file)] = NL
        /\ HasLine(file, HashExtra) <=> extra_deck /= <<>>
        /\ HasLine(file, BangSide) <=> side_deck /= <<>>

WitnessFileLayout ==
    /\ pc = "written"
    /\ main_deck = <<>>
    /\ Len(extra_deck) = 1
    /\ side_deck = <<>>
    /\ Len(SplitLines(file)) = 5

\* Reading a deck file: the lines after #main are the main deck, those after
\* #extra the extra deck, those after !side the side deck; blank lines are
\* ignored. decks is <<main, extra, side>> as read so far, into the index of
\* the deck being read (0 before #main).
RECURSIVE ReadYdkLines(_, _, _)
ReadYdkLines(ls, into, decks) ==
    IF ls = <<>> THEN decks
    ELSE LET l == Head(ls)
         IN  IF l = <<>> THEN ReadYdkLines(Tail(ls), into, decks)
             ELSE IF l = HashMain THEN ReadYdkLines(Tail(ls), 1, decks)
             ELSE IF l = HashExtra THEN ReadYdkLines(Tail(ls), 2, decks)
             ELSE IF l = BangSide THEN ReadYdkLines(Tail(ls), 3, decks)
             ELSE IF into = 0 THEN ReadYdkLines(Tail(ls), into, decks)
             ELSE ReadYdkLines(Tail(ls), into,
                               [decks EXCEPT ![into] = Append(@, l)])

ReadYdk(text) == ReadYdkLines(SplitLines(text), 0, << <<>>, <<>>, <<>> >>)

\* C5: reading the written file back gives the three decks that were written,
\* order and duplicates kept.
RoundTrip ==
    pc = "written" => ReadYdk(file) = <<main_deck, extra_deck, side_deck>>

WitnessRoundTrip ==
    /\ pc = "written"
    /\ main_deck = <<>>
    /\ Len(extra_deck) = 2 /\ extra_deck[1] = extra_deck[2]
    /\ Len(side_deck) = 2 /\ side_deck[1] /= side_deck[2]
    /\ ReadYdk(file)[3] = side_deck

\* C8: the file name ends with .ydk; a trimmed name that ends with .ydk is
\* used as it is and any other gets .ydk appended once; normalising the
\* result again changes nothing.
FileNameNormalised ==
    pc = "named" =>
        /\ EndsWith(file_name, DotYdk)
        /\ EndsWith(Strip(typed), DotYdk) => file_name = Strip(typed)
        /\ ~EndsWith(Strip(typed), DotYdk) => file_name = Strip(typed) \o DotYdk
        /\ FileName(file_name) = file_name

WitnessFileName ==
    /\ pc = "named"
    /\ typed = <<" ", "a", "y", "d", "k">>
    /\ file_name = <<"a", "y", "d", "k", ".", "y", "d", "k">>

\* C9 (as claimed): every lookup is for a line with a quantity of at least 1.
QuantityPositive ==
    \A k \in 1..Len(requests) : requests[k].quantity >= 1

\* The quantity token a trimmed line begins with, as the claim describes it:
\* digits, digits and an x, or an x and digits; of the whole run of digits.
\* <<length of the token, its digits>>, <<0, <<>>>> when there is none.
DigitRun(t, from) ==
    LET stop == {k \in from..Len(t) : t[k] \notin Digits}
    IN  IF stop = {} THEN SubSeq(t, from, Len(t)) ELSE SubSeq(t, from, SetMin(stop) - 1)

QuantityToken(t) ==
    IF t /= <<>> /\ t[1] \in Digits
    THEN LET d == Len(DigitRun(t, 1))
         IN  <<d + (IF d < Len(t) /\ t[d + 1] \in {"x", "X"} THEN 1 ELSE 0), DigitRun(t, 1)>>
    ELSE IF Len(t) >= 2 /\ t[1] \in {"x", "X"} /\ t[2] \in Digits
    THEN <<1 + Len(DigitRun(t, 2)), DigitRun(t, 2)>>
    ELSE <<0, <<>>>>

\* C10 (as claimed): of a line that begins with a quantity token, the quantity
\* is the value of the token's whole run of digits and the name looked up is
\* the trimmed rest of the line; a line that is a quantity token and nothing
\* else yields no lookup.
QuantityNameSplit ==
    \A k \in 1..Len(requests) :
        LET t == Strip(lines[requests[k].line])
            token == QuantityToken(t)
            rest == Strip(SubSeq(t, token[1] + 1, Len(t)))
        IN  token[1] > 0 =>
                /\ rest /= <<>>
                /\ requests[k].quantity = int(token[2])
                /\ requests[k].card_name = rest

\* C10, for the lines the pattern does split as described: when text follows the
\* quantity token, the quantity is the value of the token's digits and the name
\* is the trimmed rest.
QuantityNameSplitWhenNamed ==
    \A k \in 1..Len(requests) :
        LET t == Strip(lines[requests[k].line])
            token == QuantityToken(t)
            rest == Strip(SubSeq(t, token[1] + 1, Len(t)))
        IN  (token[1] > 0 /\ rest /= <<>>) =>
                /\ requests[k].quantity = int(token[2])
                /\ requests[k].card_name = rest

====
